---- MODULE Spec2Model ----
(***************************************************************************)
(* Model of the docio file loader (services/docio/src/docio/routers/       *)
(* loader.py): extension dispatch in load_file, the make_printable         *)
(* sanitizer, metadata normalisation, and the upload handler load_file_api *)
(* with its temporary file and its exception handler.                      *)
(*                                                                         *)
(* Strings are sequences: a path is a sequence of one-character strings,   *)
(* a text is a sequence of Unicode code points (integers).                 *)
(***************************************************************************)
EXTENDS Integers, Sequences, FiniteSets, TLC

VARIABLES pc, mode, filename, tmpName, tmpFiles, file_path, ext, loader,
          loadInvoked, extractOutcome, units, documents, exc, response, logs,
          spc, s, out1, out2

vars == <<pc, mode, filename, tmpName, tmpFiles, file_path, ext, loader,
          loadInvoked, extractOutcome, units, documents, exc, response, logs,
          spc, s, out1, out2>>

loadVars == <<pc, mode, filename, tmpName, tmpFiles, file_path, ext, loader,
              loadInvoked, extractOutcome, units, documents, exc, response, logs>>

sanVars == <<spc, s, out1, out2>>

-----------------------------------------------------------------------------
(* Bounds of the model *)

MaxChunks == 3

MaxUnits == 2

MaxLen == 3

-----------------------------------------------------------------------------
(* Generic helpers *)

RECURSIVE Flatten(_)
Flatten(ss) == IF ss = <<>> THEN <<>> ELSE Head(ss) \o Flatten(Tail(ss))

SeqsUpTo(S, n) == UNION {[1..k -> S] : k \in 0..n}

\* index of the last occurrence of c in p, 0 when there is none (str.rfind, 1-based)
RFind(p, c) ==
    LET hits == {i \in 1..Len(p) : p[i] = c}
    IN IF hits = {} THEN 0 ELSE CHOOSE i \in hits : \A j \in hits : j <= i

-----------------------------------------------------------------------------
(* Paths *)

Chunks == { <<".">>, <<"/">>, <<"a">>, <<"t", "X", "t">>, <<"M", "d">>,
            <<"P", "D", "F">>, <<"c", "s", "v">>, <<"x", "y", "z">> }

Paths == {Flatten(cs) : cs \in SeqsUpTo(Chunks, MaxChunks)}

\* names NamedTemporaryFile can produce before the suffix: directory, "tmp", random part
TmpStems == { <<"/", "t", "m", "p", "/", "t", "m", "p", "q">>,
              <<"/", "t", ".", "d", "/", "t", "m", "p", "_">> }

UpperLetters == <<"A","B","C","D","E","F","G","H","I","J","K","L","M",
                  "N","O","P","Q","R","S","T","U","V","W","X","Y","Z">>

LowerLetters == <<"a","b","c","d","e","f","g","h","i","j","k","l","m",
                  "n","o","p","q","r","s","t","u","v","w","x","y","z">>

LowerChar(c) ==
    IF \E i \in 1..26 : UpperLetters[i] = c
    THEN LowerLetters[CHOOSE i \in 1..26 : UpperLetters[i] = c]
    ELSE c

\* str.lower()
lower(p) == [i \in 1..Len(p) |-> LowerChar(p[i])]

\* os.path.splitext(p)[1]: the extension starts at the last dot, provided that
\* dot comes after the last separator and some character between the two is
\* not a dot (leading dots of the final component do not start an extension)
splitext(p) ==
    LET sepIndex == RFind(p, "/")
        dotIndex == RFind(p, ".")
    IN IF /\ dotIndex > sepIndex
          /\ \E k \in (sepIndex + 1)..(dotIndex - 1) : p[k] # "."
       THEN SubSeq(p, dotIndex, Len(p))
       ELSE <<>>

-----------------------------------------------------------------------------
(* make_printable *)

\* sample of code points with their Unicode general category
Category(c) ==
    CASE c = 0       -> "Cc"
      [] c = 9       -> "Cc"
      [] c = 10      -> "Cc"
      [] c = 12      -> "Cc"
      [] c = 32      -> "Zs"
      [] c = 97      -> "Ll"
      [] c = 104     -> "Ll"
      [] c = 119     -> "Ll"
      [] c = 160     -> "Zs"
      [] c = 173     -> "Cf"
      [] c = 8232    -> "Zl"
      [] c = 8233    -> "Zp"
      [] c = 55296   -> "Cs"
      [] c = 57344   -> "Co"
      [] c = 65533   -> "So"
      [] c = 1114111 -> "Cn"

CodePoints == {0, 9, 10, 12, 32, 97, 104, 119, 160, 173, 8232, 8233, 55296, 57344,
               65533, 1114111}

\* str.isprintable() of one character: categories Other and Separator are
\* not printable, the ASCII space excepted
isprintable(c) ==
    \/ c = 32
    \/ Category(c) \notin {"Cc", "Cf", "Cs", "Co", "Cn", "Zl", "Zp", "Zs"}

\* a table that also deletes the newline
TableWithNewline == {i \in CodePoints : ~isprintable(i)}

\* the keys of the translation table (every key maps to None)
NOPRINT_TRANS_TABLE == {i \in CodePoints : ~isprintable(i) /\ i # 10}

\* a translation that deletes only the first character found in the table
RECURSIVE translateFirstOnly(_, _)
translateFirstOnly(str, table) ==
    IF str = <<>> THEN <<>>
    ELSE IF Head(str) \in table
         THEN Tail(str)
         ELSE <<Head(str)>> \o translateFirstOnly(Tail(str), table)

\* str.translate(table) with a table whose values are all None
RECURSIVE translate(_, _)
translate(str, table) ==
    IF str = <<>> THEN <<>>
    ELSE IF Head(str) \in table
         THEN translate(Tail(str), table)
         ELSE <<Head(str)>> \o translate(Tail(str), table)

make_printable(str) == translate(str, NOPRINT_TRANS_TABLE)

-----------------------------------------------------------------------------
(* Documents *)

\* what a loader can return for one unit: a plain text without metadata, a
\* page with a page number, a row with a source
RawUnits == { [page_content |-> <<104, 10, 119>>, metadata |-> [x \in {} |-> 0]],
              [page_content |-> <<97, 12, 160, 0>>, metadata |-> [page |-> 2, row |-> 1]],
              [page_content |-> <<12, 97, 32>>, metadata |-> [source |-> <<"s">>, row |-> 1]] }

\* dict.get(key, default)
DictGet(m, k, default) == IF k \in DOMAIN m THEN m[k] ELSE default

\* {**a, **b}
DictMerge(a, b) ==
    [k \in (DOMAIN a) \cup (DOMAIN b) |-> IF k \in DOMAIN b THEN b[k] ELSE a[k]]

\* m[k] = v
DictSet(m, k, v) == [x \in (DOMAIN m) \cup {k} |-> IF x = k THEN v ELSE m[x]]

PageDefault(d) == [k \in {"page"} |-> DictGet(d.metadata, "page", 0)]

\* the page default written after the extractor's keys, overriding them
NormalizedMetadataPageLast(d) == DictMerge(d.metadata, [page |-> 0])

NormalizedMetadata(d) == DictMerge(PageDefault(d), d.metadata)

Document(d) ==
    [page_content |-> make_printable(d.page_content),
     metadata     |-> NormalizedMetadata(d)]

\* the documents built in the reverse order of the units
NormalizeReversed(ds) == [i \in 1..Len(ds) |-> Document(ds[Len(ds) + 1 - i])]

Normalize(ds) == [i \in 1..Len(ds) |-> Document(ds[i])]

\* source and document_id set only where the extractor left them unset
OverlayKeepExisting(d, name) ==
    [page_content |-> d.page_content,
     metadata     |-> DictMerge([source |-> name, document_id |-> name], d.metadata)]

Overlay(d, name) ==
    [page_content |-> d.page_content,
     metadata     |-> DictSet(DictSet(d.metadata, "source", name), "document_id", name)]

OverlayAll(ds, name) == [i \in 1..Len(ds) |-> Overlay(ds[i], name)]

-----------------------------------------------------------------------------
(* Errors and responses *)

NoError == [type |-> "none", ext |-> <<>>]

UnsupportedFileType(e) == [type |-> "ValueError", ext |-> e]

ExtractionError == [type |-> "ExtractionError", ext |-> <<>>]

NoResponse == [status |-> "none", documents |-> <<>>, error |-> NoError]

Returned(ds) == [status |-> "ok", documents |-> ds, error |-> NoError]

Raised(e) == [status |-> "error", documents |-> <<>>, error |-> e]

\* a handler that logs the failure and returns an empty list
ExceptHandlerSwallowing(e) == Returned(<<>>)

\* a handler that raises a new ValueError in place of the failure it caught
ExceptHandlerWrapping(e) == Raised(UnsupportedFileType(<<>>))

\* except Exception: logger.exception(...); raise
ExceptHandler(e) == Raised(e)

\* a dispatch whose else branch falls back to the text loader
DispatchFallback(e) ==
    IF e = <<".", "p", "d", "f">> THEN "PDFPlumberLoader"
    ELSE IF e = <<".", "c", "s", "v">> THEN "CSVLoader"
    ELSE "TextLoader"

\* a dispatch that does not know .md
DispatchNoMd(e) ==
    IF e = <<".", "t", "x", "t">> THEN "TextLoader"
    ELSE IF e = <<".", "p", "d", "f">> THEN "PDFPlumberLoader"
    ELSE IF e = <<".", "c", "s", "v">> THEN "CSVLoader"
    ELSE "none"

\* the extractor chosen for an extension, "none" for the else branch
Dispatch(e) ==
    IF e \in {<<".", "t", "x", "t">>, <<".", "m", "d">>} THEN "TextLoader"
    ELSE IF e = <<".", "p", "d", "f">> THEN "PDFPlumberLoader"
    ELSE IF e = <<".", "c", "s", "v">> THEN "CSVLoader"
    ELSE "none"

\* a temporary file removed only when the block is left normally
ExitTmpKeepOnError(files, name, raising) == IF raising THEN files ELSE files \ {name}

\* NamedTemporaryFile.__exit__: the file is closed and deleted, exception or not
ExitTmp(files, name, raising) == files \ {name}

-----------------------------------------------------------------------------
(* The load pipeline *)

InitLoad ==
    /\ pc = "idle"
    /\ mode = "none"
    /\ filename = <<>>
    /\ tmpName = <<>>
    /\ tmpFiles = {}
    /\ file_path = <<>>
    /\ ext = <<>>
    /\ loader = "none"
    /\ loadInvoked = FALSE
    /\ extractOutcome = "none"
    /\ units = <<>>
    /\ documents = <<>>
    /\ exc = NoError
    /\ response = NoResponse
    /\ logs = <<>>

InitSanIdle ==
    /\ spc = "off"
    /\ s = <<>>
    /\ out1 = <<>>
    /\ out2 = <<>>

Init == InitLoad /\ InitSanIdle

\* load_file_api up to the call of load_file: the upload is staged in a
\* temporary file whose suffix is the extension of the uploaded name
Upload ==
    /\ pc = "idle"
    /\ \E fn \in Paths, stem \in TmpStems :
          /\ filename' = fn
          /\ tmpName' = stem \o splitext(fn)
          /\ tmpFiles' = tmpFiles \cup {stem \o splitext(fn)}
          /\ file_path' = stem \o splitext(fn)
    /\ mode' = "api"
    /\ logs' = Append(logs, "upload")
    /\ pc' = "load_file"
    /\ UNCHANGED <<ext, loader, loadInvoked, extractOutcome, units, documents,
                   exc, response>>
    /\ UNCHANGED sanVars

\* a direct call load_file(file_path)
CallLoadFile ==
    /\ pc = "idle"
    /\ \E p \in Paths : file_path' = p
    /\ mode' = "direct"
    /\ pc' = "load_file"
    /\ UNCHANGED <<filename, tmpName, tmpFiles, ext, loader, loadInvoked,
                   extractOutcome, units, documents, exc, response, logs>>
    /\ UNCHANGED sanVars

\* load_file: the extension and the choice of the loader
SelectLoader ==
    /\ pc = "load_file"
    /\ ext' = lower(splitext(file_path))
    /\ IF Dispatch(lower(splitext(file_path))) # "none"
       THEN /\ loader' = Dispatch(lower(splitext(file_path)))
            /\ pc' = "loader_ready"
            /\ exc' = exc
       ELSE /\ loader' = loader
            /\ exc' = UnsupportedFileType(lower(splitext(file_path)))
            /\ pc' = "unwinding"
    /\ UNCHANGED <<mode, filename, tmpName, tmpFiles, file_path, loadInvoked,
                   extractOutcome, units, documents, response, logs>>
    /\ UNCHANGED sanVars

\* loader.load(): the extractor returns its units or raises
Load ==
    /\ pc = "loader_ready"
    /\ loadInvoked' = TRUE
    /\ \/ /\ \E us \in SeqsUpTo(RawUnits, MaxUnits) : units' = us
          /\ extractOutcome' = "ok"
          /\ pc' = "loaded"
          /\ exc' = exc
       \/ /\ units' = units
          /\ extractOutcome' = "fail"
          /\ exc' = ExtractionError
          /\ pc' = "unwinding"
    /\ UNCHANGED <<mode, filename, tmpName, tmpFiles, file_path, ext, loader,
                   documents, response, logs>>
    /\ UNCHANGED sanVars

\* load_file: the log line and the list comprehension building the Documents
BuildDocuments ==
    /\ pc = "loaded"
    /\ logs' = Append(logs, "docio")
    /\ documents' = Normalize(units)
    /\ pc' = "load_returned"
    /\ UNCHANGED <<mode, filename, tmpName, tmpFiles, file_path, ext, loader,
                   loadInvoked, extractOutcome, units, exc, response>>
    /\ UNCHANGED sanVars

\* load_file returns to a direct caller
ReturnDirect ==
    /\ pc = "load_returned"
    /\ mode = "direct"
    /\ response' = Returned(documents)
    /\ pc' = "done"
    /\ UNCHANGED <<mode, filename, tmpName, tmpFiles, file_path, ext, loader,
                   loadInvoked, extractOutcome, units, documents, exc, logs>>
    /\ UNCHANGED sanVars

\* load_file raises to a direct caller
RaiseDirect ==
    /\ pc = "unwinding"
    /\ mode = "direct"
    /\ response' = Raised(exc)
    /\ pc' = "done"
    /\ UNCHANGED <<mode, filename, tmpName, tmpFiles, file_path, ext, loader,
                   loadInvoked, extractOutcome, units, documents, exc, logs>>
    /\ UNCHANGED sanVars

\* load_file_api: the with block is left normally
LeaveWith ==
    /\ pc = "load_returned"
    /\ mode = "api"
    /\ tmpFiles' = ExitTmp(tmpFiles, tmpName, FALSE)
    /\ pc' = "overlay"
    /\ UNCHANGED <<mode, filename, tmpName, file_path, ext, loader, loadInvoked,
                   extractOutcome, units, documents, exc, response, logs>>
    /\ UNCHANGED sanVars

\* load_file_api: source and document_id are set on every document, which
\* are then returned
OverlayAndReturn ==
    /\ pc = "overlay"
    /\ documents' = OverlayAll(documents, filename)
    /\ response' = Returned(OverlayAll(documents, filename))
    /\ pc' = "done"
    /\ UNCHANGED <<mode, filename, tmpName, tmpFiles, file_path, ext, loader,
                   loadInvoked, extractOutcome, units, exc, logs>>
    /\ UNCHANGED sanVars

\* load_file_api: the with block is left by an exception
LeaveWithRaising ==
    /\ pc = "unwinding"
    /\ mode = "api"
    /\ tmpFiles' = ExitTmp(tmpFiles, tmpName, TRUE)
    /\ pc' = "except"
    /\ UNCHANGED <<mode, filename, tmpName, file_path, ext, loader, loadInvoked,
                   extractOutcome, units, documents, exc, response, logs>>
    /\ UNCHANGED sanVars

\* load_file_api: except Exception logs the failure and raises it again
Except ==
    /\ pc = "except"
    /\ logs' = Append(logs, "Failed to load file.")
    /\ response' = ExceptHandler(exc)
    /\ pc' = "done"
    /\ UNCHANGED <<mode, filename, tmpName, tmpFiles, file_path, ext, loader,
                   loadInvoked, extractOutcome, units, documents, exc>>
    /\ UNCHANGED sanVars

Next ==
    \/ Upload
    \/ CallLoadFile
    \/ SelectLoader
    \/ Load
    \/ BuildDocuments
    \/ ReturnDirect
    \/ RaiseDirect
    \/ LeaveWith
    \/ OverlayAndReturn
    \/ LeaveWithRaising
    \/ Except

Spec == Init /\ [][Next]_vars

-----------------------------------------------------------------------------
(* The sanitizer alone *)

Strings == SeqsUpTo(CodePoints, MaxLen)

InitSan ==
    /\ InitLoad
    /\ spc = "start"
    /\ s \in Strings
    /\ out1 = <<>>
    /\ out2 = <<>>

Sanitize ==
    /\ spc = "start"
    /\ out1' = make_printable(s)
    /\ spc' = "once"
    /\ UNCHANGED <<s, out2>>
    /\ UNCHANGED loadVars

SanitizeAgain ==
    /\ spc = "once"
    /\ out2' = make_printable(out1)
    /\ spc' = "twice"
    /\ UNCHANGED <<s, out1>>
    /\ UNCHANGED loadVars

NextSan ==
    \/ Sanitize
    \/ SanitizeAgain

SpecSan == InitSan /\ [][NextSan]_vars

-----------------------------------------------------------------------------
(* Properties *)

\* the part of p after its last separator
FinalComponent(p) == SubSeq(p, RFind(p, "/") + 1, Len(p))

\* the extension of a path: the tail of its final component from the last
\* dot on, empty when the component has no dot or only dots before that dot
SuffixExt(p) ==
    LET c == FinalComponent(p)
        d == RFind(c, ".")
    IN IF d = 0 \/ \A k \in 1..(d - 1) : c[k] = "."
       THEN <<>>
       ELSE SubSeq(c, d, Len(c))

\* the extension as the text after the last dot of the whole path (with the dot)
TextAfterLastDot(p) ==
    IF RFind(p, ".") = 0 THEN <<>> ELSE SubSeq(p, RFind(p, "."), Len(p))

SameLetter(a, b) ==
    \/ a = b
    \/ \E i \in 1..26 : {a, b} = {UpperLetters[i], LowerLetters[i]}

EqualsIgnoreCase(a, b) ==
    /\ Len(a) = Len(b)
    /\ \A i \in 1..Len(a) : SameLetter(a[i], b[i])

\* the lower-case form of an extension, all letters of e being folded
IsLowerOf(l, e) ==
    /\ EqualsIgnoreCase(l, e)
    /\ \A i \in 1..Len(l) : \A j \in 1..26 : l[i] # UpperLetters[j]

TextExts == { <<".", "t", "x", "t">>, <<".", "m", "d">> }

PdfExts == { <<".", "p", "d", "f">> }

CsvExts == { <<".", "c", "s", "v">> }

Registered == TextExts \cup PdfExts \cup CsvExts

IsRegistered(e) == \E r \in Registered : EqualsIgnoreCase(e, r)

ExpectedLoader(e) ==
    IF \E r \in TextExts : EqualsIgnoreCase(e, r) THEN "TextLoader"
    ELSE IF \E r \in PdfExts : EqualsIgnoreCase(e, r) THEN "PDFPlumberLoader"
    ELSE IF \E r \in CsvExts : EqualsIgnoreCase(e, r) THEN "CSVLoader"
    ELSE "none"

\* the path the caller supplied: the uploaded name, or the argument of load_file
InputPath == IF mode = "api" THEN filename ELSE file_path

Dispatched == pc \notin {"idle", "load_file"}

Succeeded == pc = "done" /\ response.status = "ok"

Keep(c) == isprintable(c) \/ c = 10

\* the positions of str whose character is printable or a newline
KeptPositions(str) == {i \in 1..Len(str) : Keep(str[i])}

\* the n-th kept position of str
NthKept(str, n) ==
    CHOOSE i \in KeptPositions(str) :
        Cardinality({j \in KeptPositions(str) : j <= i}) = n

\* r is str with exactly the characters deleted that are neither printable nor newline
IsSanitized(r, str) ==
    /\ Len(r) = Cardinality(KeptPositions(str))
    /\ \A n \in 1..Len(r) : r[n] = str[NthKept(str, n)]
    /\ \A n \in 1..Len(r) : Keep(r[n])

OverlayKeys == {"source", "document_id"}

\* C1 (as stated): whenever the text after the last dot of the path given to
\* load_file, lower-cased, is not a registered extension, load_file fails
\* with the unsupported-file-type error carrying exactly that text, and no
\* loader was constructed or loaded.
C1_AsClaimed ==
    (pc = "done" /\ ~IsRegistered(TextAfterLastDot(file_path)))
        => /\ response.status = "error"
           /\ response.error.type = "ValueError"
           /\ IsLowerOf(response.error.ext, TextAfterLastDot(file_path))
           /\ loader = "none"
           /\ ~loadInvoked

\* C1 (amended): whenever the extension of the path given to load_file (the
\* tail of its final component from the last dot on, empty when that
\* component has no dot or only dots before it), lower-cased, is not
\* registered, load_file fails with the unsupported-file-type error carrying
\* that lower-cased extension; no loader is constructed and no load invoked.
C1_UnsupportedRaises ==
    (Dispatched /\ ~IsRegistered(SuffixExt(file_path)))
        => /\ exc.type = "ValueError"
           /\ IsLowerOf(exc.ext, SuffixExt(file_path))
           /\ loader = "none"
           /\ ~loadInvoked
           /\ units = <<>>
           /\ pc = "done" => response = Raised(exc)

C1_Witness ==
    /\ pc = "done"
    /\ mode = "direct"
    /\ file_path = <<"a", ".", "x", "y", "z">>
    /\ response.status = "error"
    /\ response.error.ext = <<".", "x", "y", "z">>
    /\ loader = "none"

\* C2 (as stated): whenever the text after the last dot of the supplied path
\* is a supported extension in any letter case, the loader selected is the
\* one registered for it.
C2_AsClaimed ==
    (Dispatched /\ IsRegistered(TextAfterLastDot(InputPath)))
        => loader = ExpectedLoader(TextAfterLastDot(InputPath))

\* C2 (amended): whenever the extension of the supplied path (tail of the
\* final component from its last dot on, empty when the component has no dot
\* or only dots before it) is a supported extension in any letter case, the
\* loader selected is the one registered for it: text for .txt and .md, PDF
\* for .pdf, CSV for .csv; the choice is a function of that extension alone.
C2_DispatchByExtension ==
    (Dispatched /\ IsRegistered(SuffixExt(InputPath)))
        => /\ loader = ExpectedLoader(SuffixExt(InputPath))
           /\ loader # "none"
           /\ exc.type # "ValueError"

C2_Witness ==
    /\ mode = "api"
    /\ filename = <<"a", ".", "M", "d">>
    /\ loader = "TextLoader"
    /\ pc = "done"

\* C3: after a successful upload every returned document's metadata has the
\* keys source and document_id, both equal to the uploaded file name, also
\* where the extractor had set a key of that name.
C3_OverlayWins ==
    (Succeeded /\ mode = "api")
        => \A i \in 1..Len(response.documents) :
              /\ OverlayKeys \subseteq DOMAIN response.documents[i].metadata
              /\ response.documents[i].metadata["source"] = filename
              /\ response.documents[i].metadata["document_id"] = filename

C3_Witness ==
    /\ Succeeded
    /\ mode = "api"
    /\ \E i \in 1..Len(units) :
          /\ "source" \in DOMAIN units[i].metadata
          /\ units[i].metadata["source"] # filename
          /\ response.documents[i].metadata["source"] = filename

\* C4: every document load_file builds has a page key, equal to the
\* extractor's page when the unit has one and 0 otherwise, and keeps every
\* other key of the unit with its value (the upload overlay keys excepted
\* once the upload handler has set them).
C4_PageAlwaysPresent ==
    (pc \in {"load_returned", "overlay"} \/ Succeeded)
        => /\ Len(documents) = Len(units)
           /\ \A i \in 1..Len(documents) :
                 LET m == documents[i].metadata
                     u == units[i].metadata
                 IN /\ "page" \in DOMAIN m
                    /\ m["page"] = IF "page" \in DOMAIN u THEN u["page"] ELSE 0
                    /\ DOMAIN u \subseteq DOMAIN m
                    /\ \A k \in DOMAIN u :
                          (pc = "done" /\ mode = "api" /\ k \in OverlayKeys) \/ m[k] = u[k]
           /\ pc = "done" => response.documents = documents

C4_Witness ==
    /\ Succeeded
    /\ Len(units) = 2
    /\ "page" \notin DOMAIN units[1].metadata
    /\ response.documents[1].metadata["page"] = 0
    /\ "page" \in DOMAIN units[2].metadata
    /\ response.documents[2].metadata["page"] = 2

\* C5: make_printable(s) is s with exactly the code points deleted that are
\* neither printable nor newline: kept characters stay in order, nothing
\* else is removed or substituted, and a string with nothing to delete is
\* returned unchanged.
C5_SanitizeDeletesExactly ==
    (spc \in {"once", "twice"})
        => /\ IsSanitized(out1, s)
           /\ (\A i \in 1..Len(s) : Keep(s[i])) => out1 = s

C5_Witness ==
    /\ spc = "once"
    /\ s = <<97, 12, 10>>
    /\ out1 = <<97, 10>>

\* C6: make_printable is idempotent: sanitizing a sanitized string gives the
\* same string.
C6_SanitizeIdempotent ==
    (spc = "twice") => out2 = out1

C6_Witness ==
    /\ spc = "twice"
    /\ Len(s) = 3
    /\ Len(out1) = 1
    /\ out2 = out1

\* C7: a successful load returns one document per extracted unit, in the
\* order of the units: the i-th document's text is the sanitized text of the
\* i-th unit and its metadata carries the i-th unit's keys.
C7_OnePerUnitInOrder ==
    Succeeded
        => /\ Len(response.documents) = Len(units)
           /\ \A i \in 1..Len(units) :
                 /\ IsSanitized(response.documents[i].page_content, units[i].page_content)
                 /\ \A k \in (DOMAIN units[i].metadata) \ OverlayKeys :
                       /\ k \in DOMAIN response.documents[i].metadata
                       /\ response.documents[i].metadata[k] = units[i].metadata[k]
                 /\ DOMAIN response.documents[i].metadata \subseteq
                       (DOMAIN units[i].metadata) \cup {"page"} \cup OverlayKeys

C7_Witness ==
    /\ Succeeded
    /\ Len(units) = 2
    /\ units[1].page_content # units[2].page_content
    /\ DOMAIN units[1].metadata # DOMAIN units[2].metadata
    /\ Len(response.documents) = 2

\* C8: once the upload operation has left its with block, by return or by
\* exception, the temporary file it created no longer exists.
C8_TmpFileDeleted ==
    /\ (pc \in {"overlay", "except", "done"}) => tmpFiles = {}
    /\ (mode = "api" /\ pc \in {"load_file", "loader_ready", "loaded", "load_returned", "unwinding"})
          => tmpFiles = {tmpName}

C8_Witness ==
    /\ pc = "done"
    /\ mode = "api"
    /\ extractOutcome = "fail"
    /\ Len(tmpName) > 0
    /\ tmpFiles = {}

\* C9: a load in which the extension is unsupported or the extractor fails
\* ends in an error delivered to the caller, never in a return, and a call
\* that ends in an error delivers no documents.
C9_FailuresPropagate ==
    (pc = "done")
        => /\ (~IsRegistered(SuffixExt(InputPath)) \/ extractOutcome = "fail")
                 => response.status = "error"
           /\ response.status = "error"
                 => /\ response.documents = <<>>
                    /\ documents = <<>>
                    /\ response.error = exc
                    /\ exc # NoError
           /\ response.status \in {"ok", "error"}

C9_Witness ==
    /\ pc = "done"
    /\ mode = "api"
    /\ ~IsRegistered(SuffixExt(filename))
    /\ response.status = "error"
    /\ logs = <<"upload", "Failed to load file.">>

====
